---- MODULE Spec2Model ----
(***************************************************************************)
(* kmlparse.py: a line-oriented KML extractor.  The main loop reads the    *)
(* input file one line at a time, classifies the line with one regular     *)
(* expression, accumulates (longitude, latitude) points under the current  *)
(* name, and on a line that matches nothing hands the accumulated points   *)
(* to Simplified and KmlOut.                                               *)
(*                                                                         *)
(* Text is modelled as a sequence of one-character strings.  A float is    *)
(* modelled as an integer number of micro-degrees (the regular expression  *)
(* keeps six fractional digits).  The line terminator is left out of the   *)
(* lines: '.' never matches it and it cannot occur inside a line.          *)
(***************************************************************************)
EXTENDS Integers, Sequences, FiniteSets, TLC

VARIABLES name, points, l, pc, calls, files, stdout, inp, sim

vars == <<name, points, l, pc, calls, files, stdout, inp, sim>>

\* Longest input stream explored, in lines.
MaxLines == 4

-----------------------------------------------------------------------------
(* Characters and character classes of Python's re module.                 *)

DigitSeq == <<"0", "1", "2", "3", "4", "5", "6", "7", "8", "9">>

\* \d
IsDigit(c) == \E i \in 1..10 : DigitSeq[i] = c

DigitVal(c) == (CHOOSE i \in 1..10 : DigitSeq[i] = c) - 1

Letters ==
    {"a", "b", "c", "d", "e", "f", "g", "h", "i", "j", "k", "l", "m",
     "n", "o", "p", "q", "r", "s", "t", "u", "v", "w", "x", "y", "z",
     "A", "B", "C", "D", "E", "F", "G", "H", "I", "J", "K", "L", "M",
     "N", "O", "P", "Q", "R", "S", "T", "U", "V", "W", "X", "Y", "Z"}

\* \w
IsWord(c) == c \in Letters \/ IsDigit(c) \/ c = "_"

\* \s (the vertical tab has no escape here and is left out)
IsSpace(c) == c \in {" ", "\t", "\n", "\r", "\f"}

\* The two literals of the name alternative.
NameOpen == <<"<", "n", "a", "m", "e", ">">>

NameClose == <<"<", "/", "n", "a", "m", "e", ">">>

\* \d{2} of both coordinate groups.
DegDigits == 2

\* A variant that asks for four fractional digits.
FracDigitsShort == 6 - 2

\* \d{6} of both coordinate groups.
FracDigits == 6

-----------------------------------------------------------------------------
(* The regular expression of the main loop: a name alternative, the tag   *)
(* "<name>", a starred class of word and space characters (group 1) and    *)
(* "</name>"; and a coordinate alternative, "-", two digits, any           *)
(* character, six digits (group 2), starred digits, ",", two digits, any   *)
(* character, six digits (group 3), starred digits.  No part of it         *)
(* backtracks: what follows each star is a character outside the starred   *)
(* class.                                                                  *)

\* s has the literal lit at position i.
LitAt(s, i, lit) ==
    /\ i + Len(lit) - 1 <= Len(s)
    /\ \A k \in 1..Len(lit) : s[i + k - 1] = lit[k]

\* s has n digits at positions i .. i+n-1.
DigitsAt(s, i, n) ==
    /\ i + n - 1 <= Len(s)
    /\ \A k \in 0..(n - 1) : IsDigit(s[i + k])

\* '.' : any character but the line terminator.
AnyAt(s, i) == i <= Len(s) /\ s[i] # "\n"

\* The class of group 1: a word or a space character.
InNameClass(c) == IsWord(c) \/ IsSpace(c)

\* The position after the longest run of name-class characters from i.
RECURSIVE NameStarEnd(_, _)
NameStarEnd(s, i) ==
    IF i <= Len(s) /\ InNameClass(s[i]) THEN NameStarEnd(s, i + 1) ELSE i

\* The position after the longest run of digits from i.
RECURSIVE DigitStarEnd(_, _)
DigitStarEnd(s, i) ==
    IF i <= Len(s) /\ IsDigit(s[i]) THEN DigitStarEnd(s, i + 1) ELSE i

\* A group that took no part in the match (None in Python).
NoGroup == [some |-> FALSE, s |-> <<>>]

Group(s) == [some |-> TRUE, s |-> s]

NoMatch == [matched |-> FALSE, g1 |-> NoGroup, g2 |-> NoGroup, g3 |-> NoGroup]

\* The name alternative, tried at position i.
NameAt(s, i) ==
    LET b == i + Len(NameOpen)
        e == NameStarEnd(s, b)
    IN  IF LitAt(s, i, NameOpen) /\ LitAt(s, e, NameClose)
        THEN [matched |-> TRUE, g1 |-> Group(SubSeq(s, b, e - 1)),
              g2 |-> NoGroup, g3 |-> NoGroup]
        ELSE NoMatch

\* Two digits, any character, six digits at position i; its length.
NumLen == DegDigits + 1 + FracDigits

NumAt(s, i) ==
    /\ DigitsAt(s, i, DegDigits)
    /\ AnyAt(s, i + DegDigits)
    /\ DigitsAt(s, i + DegDigits + 1, FracDigits)

\* A variant whose groups take in the starred digits as well.
CoordAtWhole(s, i) ==
    LET c == DigitStarEnd(s, i + 1 + NumLen)
        e == DigitStarEnd(s, c + 1 + NumLen)
    IN  IF /\ LitAt(s, i, <<"-">>)
           /\ NumAt(s, i + 1)
           /\ LitAt(s, c, <<",">>)
           /\ NumAt(s, c + 1)
        THEN [matched |-> TRUE, g1 |-> NoGroup,
              g2 |-> Group(SubSeq(s, i, c - 1)),
              g3 |-> Group(SubSeq(s, c + 1, e - 1))]
        ELSE NoMatch

\* The coordinate alternative, tried at position i.
CoordAt(s, i) ==
    LET c == DigitStarEnd(s, i + 1 + NumLen)
    IN  IF /\ LitAt(s, i, <<"-">>)
           /\ NumAt(s, i + 1)
           /\ LitAt(s, c, <<",">>)
           /\ NumAt(s, c + 1)
        THEN [matched |-> TRUE, g1 |-> NoGroup,
              g2 |-> Group(SubSeq(s, i, i + NumLen)),
              g3 |-> Group(SubSeq(s, c + 1, c + NumLen))]
        ELSE NoMatch

\* The pattern tried at one position: the alternatives in their order.
MatchAt(s, i) ==
    IF NameAt(s, i).matched THEN NameAt(s, i) ELSE CoordAt(s, i)

\* re.search: the match at the leftmost position that has one.
RECURSIVE SearchFrom(_, _)
SearchFrom(s, i) ==
    IF i > Len(s) THEN NoMatch
    ELSE IF MatchAt(s, i).matched THEN MatchAt(s, i)
    ELSE SearchFrom(s, i + 1)

\* A variant that prefers a name tag anywhere in the line.
searchNameFirst(s) ==
    LET names == {i \in 1..Len(s) : NameAt(s, i).matched}
    IN  IF names = {} THEN SearchFrom(s, 1)
        ELSE NameAt(s, CHOOSE i \in names : \A j \in names : i <= j)

search(s) == SearchFrom(s, 1)

\* Truth value of m.group(k): neither None nor the empty string.
Truthy(g) == g.some /\ g.s # <<>>

-----------------------------------------------------------------------------
(* float() and str() on the texts the pattern can capture.                 *)

RECURSIVE DigitsValue(_)
DigitsValue(s) ==
    IF s = <<>> THEN 0
    ELSE 10 * DigitsValue(SubSeq(s, 1, Len(s) - 1)) + DigitVal(s[Len(s)])

RECURSIVE Pow10(_)
Pow10(n) == IF n = 0 THEN 1 ELSE 10 * Pow10(n - 1)

AllDigits(s) == \A k \in 1..Len(s) : IsDigit(s[k])

\* The fraction in micro-units, the resolution of the modelled floats: a
\* shorter fraction is padded with zeros; a fraction of more than six digits
\* is a value between two micro-units and is taken to the nearest one.
FracMicro(s) ==
    LET n == IF Len(s) < 6 THEN Len(s) ELSE 6
    IN  DigitsValue(SubSeq(s, 1, n)) * Pow10(6 - n)
        + (IF Len(s) > 6 /\ DigitVal(s[7]) >= 5 THEN 1 ELSE 0)

\* float(text) for a decimal literal: an optional sign, digits, an optional
\* point and digits.  Any other text raises ValueError.  (Exponent and
\* underscore forms are not decimal literals of this shape and are not
\* among the modelled lines.)
ParseFloat(t) ==
    LET neg  == t # <<>> /\ t[1] = "-"
        body == IF neg THEN Tail(t) ELSE t
        dots == {k \in 1..Len(body) : body[k] = "."}
        dot  == IF dots = {} THEN Len(body) + 1
                ELSE CHOOSE k \in dots : \A j \in dots : k <= j
        whole == SubSeq(body, 1, dot - 1)
        frac  == SubSeq(body, dot + 1, Len(body))
        mag   == DigitsValue(whole) * Pow10(6) + FracMicro(frac)
    IN  IF /\ whole \o frac # <<>>
           /\ AllDigits(whole)
           /\ AllDigits(frac)
        THEN [ok |-> TRUE, v |-> IF neg THEN 0 - mag ELSE mag]
        ELSE [ok |-> FALSE, v |-> 0]

\* The decimal digits of a natural number.
RECURSIVE NatStr(_)
NatStr(n) ==
    IF n < 10 THEN <<DigitSeq[n + 1]>>
    ELSE NatStr(n \div 10) \o <<DigitSeq[(n % 10) + 1]>>

\* The fractional digits of str(float): six digits of micro-units with the
\* trailing zeros dropped, and at least one digit.
RECURSIVE FracStr(_, _)
FracStr(f, width) ==
    IF width = 1 THEN NatStr(f)
    ELSE IF f % 10 = 0 THEN FracStr(f \div 10, width - 1)
    ELSE FracStr(f \div Pow10(width - 1), 1)
         \o FracStr(f % Pow10(width - 1), width - 1)

\* str(x) of a float x: the shortest text that reads back as x.
FloatStr(v) ==
    LET mag == IF v < 0 THEN 0 - v ELSE v
    IN  (IF v < 0 THEN <<"-">> ELSE <<>>)
        \o NatStr(mag \div Pow10(6)) \o <<".">> \o FracStr(mag % Pow10(6), 6)

-----------------------------------------------------------------------------
(* simplify_coords(coords, epsilon) of the simplification package: the     *)
(* Ramer-Douglas-Peucker reduction.  The package is not part of the        *)
(* repository; it is modelled from section 4.2 of the specification.       *)
(* Coordinates are whole micro-degrees on a 0.0001-degree grid, so the     *)
(* distance test is computed exactly in grid units.                        *)

\* lineWidth = 0.001, in micro-degrees.
lineWidth == 1000

Grid(d) == d \div 100

Sq(x) == x * x

\* A variant that splits a stretch when its farthest point is within the
\* tolerance, and not otherwise.
FartherThanInverted(p, a, b, tol) ==
    LET ex == Grid(b[1] - a[1])
        ey == Grid(b[2] - a[2])
        px == Grid(a[1] - p[1])
        py == Grid(a[2] - p[2])
        cross == ex * py - px * ey
    IN  IF a = b
        THEN Sq(px) + Sq(py) <= Sq(Grid(tol))
        ELSE Sq(cross) <= Sq(Grid(tol)) * (Sq(ex) + Sq(ey))

\* The distance of p from the line through a and b is greater than tol
\* (from a itself, when a and b coincide).
FartherThan(p, a, b, tol) ==
    LET ex == Grid(b[1] - a[1])
        ey == Grid(b[2] - a[2])
        px == Grid(a[1] - p[1])
        py == Grid(a[2] - p[2])
        cross == ex * py - px * ey
    IN  IF a = b
        THEN Sq(px) + Sq(py) > Sq(Grid(tol))
        ELSE Sq(cross) > Sq(Grid(tol)) * (Sq(ex) + Sq(ey))

\* p is at least as far from the line through a and b as q is.
NotNearer(p, q, a, b) ==
    LET ex == Grid(b[1] - a[1])
        ey == Grid(b[2] - a[2])
        cp == ex * Grid(a[2] - p[2]) - Grid(a[1] - p[1]) * ey
        cq == ex * Grid(a[2] - q[2]) - Grid(a[1] - q[1]) * ey
    IN  IF a = b
        THEN Sq(Grid(a[1] - p[1])) + Sq(Grid(a[2] - p[2]))
             >= Sq(Grid(a[1] - q[1])) + Sq(Grid(a[2] - q[2]))
        ELSE Sq(cp) >= Sq(cq)

\* The first interior index farthest from the line through the end points.
Farthest(pts) ==
    LET n == Len(pts)
        far == {i \in 2..(n - 1) :
                   \A j \in 2..(n - 1) : NotNearer(pts[i], pts[j], pts[1], pts[n])}
    IN  CHOOSE i \in far : \A j \in far : i <= j

RECURSIVE rdp(_, _)
rdp(pts, tol) ==
    IF Len(pts) < 3 THEN pts
    ELSE LET n == Len(pts)
             k == Farthest(pts)
         IN  IF FartherThan(pts[k], pts[1], pts[n], tol)
             THEN rdp(SubSeq(pts, 1, k), tol) \o Tail(rdp(SubSeq(pts, k, n), tol))
             ELSE <<pts[1], pts[n]>>

\* A variant that leaves the first point out of the line it simplifies.
simplify_coordsSkipFirst(coords, epsilon) ==
    IF coords = <<>> THEN <<>> ELSE rdp(Tail(coords), epsilon)

simplify_coords(coords, epsilon) == rdp(coords, epsilon)

-----------------------------------------------------------------------------
(* Simplified(inpoints)                                                    *)

\* ','.join(x)
RECURSIVE Join(_)
Join(x) ==
    IF x = <<>> THEN <<>>
    ELSE IF Len(x) = 1 THEN x[1]
    ELSE x[1] \o <<",">> \o Join(Tail(x))

\* A variant that leaves the elevation out.
TransformNoElevation(x) == <<FloatStr(x[1]), FloatStr(x[2])>>

\* x.append(0); y = [str(i) for i in x]
Transform(x) == <<FloatStr(x[1]), FloatStr(x[2]), <<"0">>>>

\* Variants that leave the closing copy out, always or when the ends are
\* already equal.
CloseLoopNoAppend(outpoints) == outpoints

CloseLoopIfOpen(outpoints) ==
    IF outpoints[1] = outpoints[Len(outpoints)] THEN outpoints
    ELSE Append(outpoints, outpoints[1])

\* outpoints.append(outpoints[0])
CloseLoop(outpoints) == Append(outpoints, outpoints[1])

\* A variant that returns an empty list for an empty input.
SimplifiedLenient(inpoints) ==
    LET simplified == simplify_coords(inpoints, lineWidth)
        outpoints  == [i \in 1..Len(simplified) |-> Transform(simplified[i])]
        closed     == IF outpoints = <<>> THEN <<>>
                      ELSE Append(outpoints, outpoints[1])
    IN  [ok |-> TRUE, err |-> "",
         out |-> [i \in 1..Len(closed) |-> Join(closed[i])]]

\* Simplified: the returned list, or the exception it ends with.  An empty
\* list of retained points makes outpoints[0] raise IndexError.
Simplified(inpoints) ==
    LET simplified == simplify_coords(inpoints, lineWidth)
        outpoints  == [i \in 1..Len(simplified) |-> Transform(simplified[i])]
    IN  IF outpoints = <<>>
        THEN [ok |-> FALSE, err |-> "IndexError", out |-> <<>>]
        ELSE LET closed == CloseLoop(outpoints)
             IN  [ok |-> TRUE, err |-> "",
                  out |-> [i \in 1..Len(closed) |-> Join(closed[i])]]

-----------------------------------------------------------------------------
(* KmlOut(name, points)                                                    *)

Suffix == <<"_", "p", "o", "i", "n", "t", "s", ".", "k", "m", "l">>

FileName(n) == n \o Suffix

\* The document written: the header with the name inserted at its three
\* places, one line per point, the closing tags.
Document(n, pts) ==
    [styleId     |-> n \o <<"S", "t", "y", "l", "e">>,
     placemark   |-> n,
     styleUrl    |-> <<"#">> \o n \o <<"S", "t", "y", "l", "e">>,
     coordinates |-> pts,
     closed      |-> TRUE]

\* open(name + '_points.kml', 'w') and the writes: the file is created or
\* replaced.
Written(fs, n, pts) ==
    [f \in (DOMAIN fs) \cup {FileName(n)} |->
        IF f = FileName(n) THEN Document(n, pts) ELSE fs[f]]

\* The same open, with the writes cut short by an error: the file is created
\* or replaced and holds only the lines written before the error.
Partial(fs, n, pts) ==
    [f \in (DOMAIN fs) \cup {FileName(n)} |->
        IF f = FileName(n) THEN [Document(n, pts) EXCEPT !.closed = FALSE]
        ELSE fs[f]]

\* print('wrote file for ' + name + ' -- length: ' + str(len(points)))
Progress(n, pts) == [name |-> n, length |-> Len(pts)]

-----------------------------------------------------------------------------
(* The input lines the stream is drawn from.                               *)

NameTag(cap) == NameOpen \o cap \o NameClose

CapA == <<"A">>

CapBC == <<"B", " ", "C">>

CapWide == <<"B", " ", " ", "\t", "C">>

LonA == <<"-", "9", "7", ".", "1", "0", "0", "0", "0", "0">>

LatA == <<"2", "9", ".", "1", "0", "0", "0", "0", "0">>

LonB == <<"-", "9", "7", ".", "1", "0", "5", "0", "0", "0", "9">>

LatB == <<"2", "9", ".", "1", "0", "0", "8", "0", "0", "9">>

LonD == <<"-", "9", "7", ".", "1", "1", "0", "0", "0", "0">>

LonShort == <<"-", "9", "7", ".", "7", "6", "7", "8">>

LatShort == <<"2", "9", ".", "4", "3", "4", "5">>

LatShort4 == <<"2", "9", ".", "1", "0", "0", "0">>

LonWild == <<"-", "9", "7", "x", "1", "0", "0", "0", "0", "0">>

Comma == <<",">>

LineNameA == NameTag(CapA)

LineNameWide == NameTag(CapWide)

LineNameEmpty == NameTag(<<>>)

LineA == LonA \o Comma \o LatA

LineB == LonB \o Comma \o LatB

LineD == LonD \o Comma \o LatA

LineSep == <<"-", "-", "-">>

LineShort == LonShort \o Comma \o LatShort

LineShortLat == LonA \o Comma \o LatShort4

LineCoordName == LineD \o NameTag(CapA)

LineNameCoord == NameTag(CapBC) \o LineD

LineWild == LonWild \o Comma \o LatA

Lines ==
    {LineNameA, LineNameWide, LineNameEmpty,
     LineA, LineB, LineD, LineSep, LineShort, LineShortLat,
     LineCoordName, LineNameCoord, LineWild}

-----------------------------------------------------------------------------
(* The main script.                                                        *)

\* m = re.search(pattern, l), for each line of the input.
Found == [line \in Lines |-> search(line)]

\* A variant that turns each run of spaces into one "_".
ReplaceRuns(s) ==
    LET keep == {i \in 1..Len(s) : ~(s[i] = " " /\ i > 1 /\ s[i - 1] = " ")}
        nth(k) == CHOOSE i \in keep : Cardinality({j \in keep : j <= i}) = k
    IN  [k \in 1..Cardinality(keep) |->
            IF s[nth(k)] = " " THEN "_" ELSE s[nth(k)]]

\* m.group(1).replace(' ', '_')
Replace(s) == [i \in 1..Len(s) |-> IF s[i] = " " THEN "_" ELSE s[i]]

\* A variant that inserts at the front.
appendFront(pts, p) == <<p>> \o pts

\* points.append(p)
append(pts, p) == Append(pts, p)

\* A variant that takes the branch whatever is pending.
HasPendingAlways(pts) == TRUE

\* len(points), as a condition
HasPending(pts) == Len(pts) # 0

\* A variant that leaves the points in place.
reinitKeep(pts) == pts

\* points = []
reinit(pts) == <<>>

\* if m and m.group(1)
IsName(m) == m.matched /\ Truthy(m.g1)

\* elif m and m.group(2) and m.group(3)
IsCoord(m) == ~IsName(m) /\ m.matched /\ Truthy(m.g2) /\ Truthy(m.g3)

\* name = ''; points = []; the input file is open and nothing is read.
Init ==
    /\ name = <<>>
    /\ points = <<>>
    /\ l = <<>>
    /\ pc = "loop"
    /\ calls = <<>>
    /\ files = <<>>
    /\ stdout = <<>>
    /\ inp = <<>>
    /\ sim = <<>>

\* for l in f: the next line of the file is line.
Read(line) ==
    /\ pc = "loop"
    /\ Len(inp) < MaxLines
    /\ l' = line
    /\ inp' = Append(inp, line)

\* Found a name.
NameRecord(line) ==
    /\ Read(line)
    /\ IsName(Found[line])
    /\ name' = Replace(Found[line].g1.s)
    /\ UNCHANGED <<points, pc, calls, files, stdout, sim>>

\* Found some geo data.
CoordRecord(line) ==
    /\ Read(line)
    /\ IsCoord(Found[line])
    /\ LET lon == ParseFloat(Found[line].g2.s)
           lat == ParseFloat(Found[line].g3.s)
       IN  /\ lon.ok /\ lat.ok
           /\ points' = append(points, <<lon.v, lat.v>>)
    /\ UNCHANGED <<name, pc, calls, files, stdout, sim>>

\* Found some geo data that float() rejects: the script ends with the
\* exception.
CoordError(line) ==
    /\ Read(line)
    /\ IsCoord(Found[line])
    /\ ~(ParseFloat(Found[line].g2.s).ok /\ ParseFloat(Found[line].g3.s).ok)
    /\ pc' = "ValueError"
    /\ UNCHANGED <<name, points, calls, files, stdout, sim>>

\* Found nothing, with points found before: line 169 up to the call of
\* KmlOut.  The calls of Simplified and of simplify_coords are logged.
Flush(line) ==
    /\ Read(line)
    /\ ~IsName(Found[line])
    /\ ~IsCoord(Found[line])
    /\ HasPending(points)
    /\ LET r == Simplified(points)
       IN  calls' = Append(calls, [name |-> name, inpoints |-> points,
                                   at |-> Len(inp) + 1,
                                   ok |-> r.ok, out |-> r.out])
    /\ sim' = Append(sim, [coords |-> points, epsilon |-> lineWidth,
                           result |-> simplify_coords(points, lineWidth)])
    /\ UNCHANGED name

\* KmlOut(name, Simplified(points)) and points = [].  When Simplified
\* raises, the script ends there.
EndOfRun(line) ==
    /\ Flush(line)
    /\ LET r == Simplified(points)
       IN  IF r.ok
           THEN /\ files' = Written(files, name, r.out)
                /\ stdout' = Append(stdout, Progress(name, r.out))
                /\ points' = reinit(points)
                /\ pc' = pc
           ELSE /\ pc' = r.err
                /\ UNCHANGED <<files, stdout, points>>

\* The same, with open() in KmlOut raising: nothing is written and the
\* script ends with the exception.
EndOfRunOpenFails(line) ==
    /\ Flush(line)
    /\ Simplified(points).ok
    /\ pc' = "OSError"
    /\ UNCHANGED <<files, stdout, points>>

\* The same, with a write in KmlOut raising after open() has created or
\* emptied the file: the file holds the lines that got written, and the
\* script ends with the exception.
EndOfRunWriteFails(line) ==
    /\ Flush(line)
    /\ Simplified(points).ok
    /\ \E k \in 0..Len(Simplified(points).out) :
          files' = Partial(files, name, SubSeq(Simplified(points).out, 1, k))
    /\ pc' = "OSError"
    /\ UNCHANGED <<stdout, points>>

\* Found nothing and no points are pending.
Skip(line) ==
    /\ Read(line)
    /\ ~IsName(Found[line])
    /\ ~IsCoord(Found[line])
    /\ ~HasPending(points)
    /\ UNCHANGED <<name, points, pc, calls, files, stdout, sim>>

\* The file is exhausted: the loop and the script end.
EndOfStream ==
    /\ pc = "loop"
    /\ pc' = "done"
    /\ UNCHANGED <<name, points, l, calls, files, stdout, inp, sim>>

Next ==
    \/ \E line \in Lines : NameRecord(line)
    \/ \E line \in Lines : CoordRecord(line)
    \/ \E line \in Lines : CoordError(line)
    \/ \E line \in Lines : EndOfRun(line)
    \/ \E line \in Lines : EndOfRunOpenFails(line)
    \/ \E line \in Lines : EndOfRunWriteFails(line)
    \/ \E line \in Lines : Skip(line)
    \/ EndOfStream

Spec == Init /\ [][Next]_vars

-----------------------------------------------------------------------------
(* Simplified and simplify_coords on their own: one list of points, empty  *)
(* or not, is handed to Simplified as line 169 does, and simplify_coords   *)
(* is applied to it at several tolerances and to its own results.          *)

MaxPts == 4

MaxCalls == 2

PtA == <<0 - 97100000, 29100000>>
PtB == <<0 - 97105000, 29100800>>
PtD == <<0 - 97110000, 29100000>>
PtE == <<0 - 97105000, 29105000>>

SamplePoints == {PtA, PtB, PtD, PtE}

PointLists == UNION {[1..n -> SamplePoints] : n \in 0..MaxPts}

Tolerances == {lineWidth \div 2, lineWidth, 6 * lineWidth}

InitS ==
    /\ name = <<>>
    /\ points \in PointLists
    /\ l = <<>>
    /\ pc = "call"
    /\ calls = <<>>
    /\ files = <<>>
    /\ stdout = <<>>
    /\ inp = <<>>
    /\ sim = <<>>

\* KmlOut(name, Simplified(points))
CallSimplified ==
    /\ pc = "call"
    /\ Len(sim) < MaxCalls
    /\ LET r == Simplified(points)
       IN  /\ calls' = Append(calls, [name |-> name, inpoints |-> points,
                                     at |-> Len(inp) + 1,
                                     ok |-> r.ok, out |-> r.out])
           /\ IF r.ok
              THEN /\ files' = Written(files, name, r.out)
                   /\ stdout' = Append(stdout, Progress(name, r.out))
                   /\ pc' = "done"
              ELSE /\ pc' = r.err
                   /\ UNCHANGED <<files, stdout>>
    /\ sim' = Append(sim, [coords |-> points, epsilon |-> lineWidth,
                           result |-> simplify_coords(points, lineWidth)])
    /\ UNCHANGED <<name, points, l, inp>>

\* simplify_coords(inpoints, tol)
Simplify(tol) ==
    /\ pc = "call"
    /\ Len(sim) < MaxCalls
    /\ sim' = Append(sim, [coords |-> points, epsilon |-> tol,
                           result |-> simplify_coords(points, tol)])
    /\ UNCHANGED <<name, points, l, pc, calls, files, stdout, inp>>

\* simplify_coords applied to the result of an earlier application, at the
\* same tolerance.
Resimplify(i) ==
    /\ pc = "call"
    /\ Len(sim) < MaxCalls
    /\ sim' = Append(sim, [coords |-> sim[i].result, epsilon |-> sim[i].epsilon,
                           result |-> simplify_coords(sim[i].result,
                                                      sim[i].epsilon)])
    /\ UNCHANGED <<name, points, l, pc, calls, files, stdout, inp>>

NextS ==
    \/ CallSimplified
    \/ \E tol \in Tolerances : Simplify(tol)
    \/ \E i \in 1..Len(sim) : Resimplify(i)

SpecSimplify == InitS /\ [][NextS]_vars

-----------------------------------------------------------------------------
(* Properties.  A step reads a line exactly when inp grows; the line read  *)
(* is then l'.                                                             *)

\* The line matches nothing the script acts on.
Neither(line) ==
    LET m == SearchFrom(line, 1)
    IN  ~(m.g1.some /\ m.g1.s # <<>>) /\ ~(m.g2.some /\ m.g3.some)

\* The number of fractional digits of a text of the form two digits, a
\* decimal point, digits; -1 for any other text.
FracLen(t) ==
    IF /\ Len(t) >= 3
       /\ IsDigit(t[1]) /\ IsDigit(t[2]) /\ t[3] = "."
       /\ \A k \in 4..Len(t) : IsDigit(t[k])
    THEN Len(t) - 3
    ELSE 0 - 1

\* The line is a longitude and a latitude in decimal degrees of which one
\* or both have fewer than six fractional digits.
ShortCoord(line) ==
    \E c \in 2..Len(line) :
        /\ line[c] = ","
        /\ line[1] = "-"
        /\ LET lon == FracLen(SubSeq(line, 2, c - 1))
               lat == FracLen(SubSeq(line, c + 1, Len(line)))
           IN  lon >= 0 /\ lat >= 0 /\ (lon < 6 \/ lat < 6)

\* The text with every run of whitespace characters replaced by one "_".
CollapseWhitespace(s) ==
    LET keep == {i \in 1..Len(s) :
                    ~(IsSpace(s[i]) /\ i > 1 /\ IsSpace(s[i - 1]))}
        nth(k) == CHOOSE i \in keep : Cardinality({j \in keep : j <= i}) = k
    IN  [k \in 1..Cardinality(keep) |->
            IF IsSpace(s[nth(k)]) THEN "_" ELSE s[nth(k)]]

\* The line is taken as a name record: the pattern matches by its name
\* alternative with a captured text that is not empty.
NameRecordLine(line) ==
    SearchFrom(line, 1).g1.some /\ SearchFrom(line, 1).g1.s # <<>>

Captured(line) == SearchFrom(line, 1).g1.s

\* The positions of the line at which each alternative matches.
NamePositions(line) == {i \in 1..Len(line) : NameAt(line, i).matched}

CoordPositions(line) == {i \in 1..Len(line) : CoordAt(line, i).matched}

Least(S) == CHOOSE i \in S : \A j \in S : i <= j

\* The line holds a name tag with a captured text that is not empty.
HoldsNameTag(line) ==
    \E i \in NamePositions(line) : NameAt(line, i).g1.s # <<>>

\* The leftmost match of the line is a name tag with a captured text that
\* is not empty.
NameLeftmost(line) ==
    /\ NamePositions(line) # {}
    /\ \A j \in CoordPositions(line) : Least(NamePositions(line)) < j
    /\ NameAt(line, Least(NamePositions(line))).g1.s # <<>>

\* The leftmost match of the line is coordinate text.
CoordLeftmost(line) ==
    /\ CoordPositions(line) # {}
    /\ \A j \in NamePositions(line) : Least(CoordPositions(line)) < j

\* The line is a longitude and a latitude in decimal degrees, each with six
\* or more fractional digits.
LongCoord(line) ==
    \E c \in 2..Len(line) :
        /\ line[c] = ","
        /\ line[1] = "-"
        /\ FracLen(SubSeq(line, 2, c - 1)) >= 6
        /\ FracLen(SubSeq(line, c + 1, Len(line))) >= 6

\* The value of a text of two digits, a point and six or more digits, cut
\* after the sixth fractional digit; and the same rounded at that digit.
CutAtSix(t) == DigitsValue(SubSeq(t, 1, 2)) * Pow10(6) + DigitsValue(SubSeq(t, 4, 9))

RoundedAtSix(t) ==
    CutAtSix(t) + (IF Len(t) > 9 /\ DigitVal(t[10]) >= 5 THEN 1 ELSE 0)

\* The point of such a line with both numbers cut, and with both rounded.
CutPoint(line) ==
    LET c == CHOOSE k \in 2..Len(line) : line[k] = ","
    IN  <<0 - CutAtSix(SubSeq(line, 2, c - 1)),
          CutAtSix(SubSeq(line, c + 1, Len(line)))>>

RoundedPoint(line) ==
    LET c == CHOOSE k \in 2..Len(line) : line[k] = ","
    IN  <<0 - RoundedAtSix(SubSeq(line, 2, c - 1)),
          RoundedAtSix(SubSeq(line, c + 1, Len(line)))>>

\* The points a line read as a coordinate record adds.
LinePoints(line) ==
    LET m == SearchFrom(line, 1)
        lon == ParseFloat(m.g2.s)
        lat == ParseFloat(m.g3.s)
    IN  IF m.g2.some /\ m.g3.some /\ lon.ok /\ lat.ok
        THEN <<(<<lon.v, lat.v>>)>> ELSE <<>>

\* Two digits, a decimal point, six digits at position i.
LiteralNumAt(s, i) ==
    /\ DigitsAt(s, i, DegDigits)
    /\ LitAt(s, i + DegDigits, <<".">>)
    /\ DigitsAt(s, i + DegDigits + 1, FracDigits)

\* The line holds a minus sign and a longitude and, after further digits and
\* a comma, a latitude, both with a decimal point.
LiteralCoord(line) ==
    \E i \in 1..Len(line) :
        LET c == DigitStarEnd(line, i + 1 + NumLen)
        IN  /\ LitAt(line, i, <<"-">>)
            /\ LiteralNumAt(line, i + 1)
            /\ LitAt(line, c, <<",">>)
            /\ LiteralNumAt(line, c + 1)

\* What the properties need to know of each line, worked out once.
Facts ==
    [line \in Lines |->
        [neither       |-> Neither(line),
         nameMatch     |-> SearchFrom(line, 1).g1.some,
         nameRecord    |-> NameRecordLine(line),
         captured      |-> Captured(line),
         collapsed     |-> CollapseWhitespace(Captured(line)),
         short         |-> ShortCoord(line),
         classified    |-> IsCoord(SearchFrom(line, 1)),
         literal       |-> LiteralCoord(line),
         long          |-> LongCoord(line),
         cut           |-> IF LongCoord(line) THEN CutPoint(line) ELSE <<>>,
         rounded       |-> IF LongCoord(line) THEN RoundedPoint(line) ELSE <<>>,
         holdsTag      |-> HoldsNameTag(line),
         tagNames      |-> {NameAt(line, i).g1.s : i \in NamePositions(line)},
         nameLeftmost  |-> NameLeftmost(line),
         leftmostName  |-> IF NamePositions(line) = {} THEN <<>>
                           ELSE NameAt(line, Least(NamePositions(line))).g1.s,
         coordLeftmost |-> CoordLeftmost(line),
         points        |-> LinePoints(line)]]

ReadStep == inp' # inp

LastCall == calls[Len(calls)]

\* The points of the coordinate records among the lines, in input order.
RECURSIVE PointsOf(_)
PointsOf(lines) ==
    IF lines = <<>> THEN <<>>
    ELSE Facts[Head(lines)].points \o PointsOf(Tail(lines))

\* The points handed off by the calls, in order.
RECURSIVE HandedOff(_)
HandedOff(cs) ==
    IF cs = <<>> THEN <<>> ELSE Head(cs).inpoints \o HandedOff(Tail(cs))

\* The lines read after the line that caused the latest handoff.
SinceHandoff ==
    LET from == IF calls = <<>> THEN 0 ELSE LastCall.at
    IN  SubSeq(inp, from + 1, Len(inp))

\* C1: when the script has ended at the end of the stream, every point of
\* every coordinate record read has been handed off: the points still
\* pending at the last line got a final handoff.
C1_EndOfStreamFlush ==
    pc = "done" => HandedOff(calls) = PointsOf(inp)

\* C2: a line that is neither record, read while points are pending, hands
\* off exactly one group, appended after the earlier ones: the current name
\* with exactly the points of the coordinate records read since the previous
\* handoff, in input order; the group is written and the pending points are
\* reset.  With nothing pending such a line changes nothing.
C2_MidStreamFlush ==
    [][(ReadStep /\ Facts[l'].neither) =>
          IF points = <<>>
          THEN UNCHANGED <<name, points, pc, calls, files, stdout>>
          ELSE /\ Len(calls') = Len(calls) + 1
               /\ SubSeq(calls', 1, Len(calls)) = calls
               /\ calls'[Len(calls')].name = name
               /\ calls'[Len(calls')].inpoints = PointsOf(SinceHandoff)
               /\ calls'[Len(calls')].at = Len(inp')
               /\ pc' = "loop" =>
                    /\ points' = <<>>
                    /\ name' = name
                    /\ files'[FileName(name)].coordinates
                         = calls'[Len(calls')].out]_vars

C2_Witness ==
    /\ calls # <<>>
    /\ LastCall.at = Len(inp)
    /\ Len(LastCall.inpoints) >= 2
    /\ LastCall.inpoints[1] # LastCall.inpoints[2]
    /\ points = <<>>

\* C3: the sequence Simplified returns for a non-empty input has equal
\* first and last elements.
C3_Closure ==
    \A i \in 1..Len(calls) :
        calls[i].inpoints # <<>> =>
            /\ calls[i].ok
            /\ calls[i].out[1] = calls[i].out[Len(calls[i].out)]

C3_Witness ==
    \E i \in 1..Len(calls) :
        /\ Len(calls[i].out) >= 3
        /\ calls[i].out[1] # calls[i].out[2]

\* C4: the sequence Simplified returns for an input of one or more points
\* has at least two elements.
C4_NonDegenerate ==
    \A i \in 1..Len(calls) :
        Len(calls[i].inpoints) >= 1 => Len(calls[i].out) >= 2

C4_Witness ==
    \E i \in 1..Len(calls) :
        Len(calls[i].inpoints) = 1 /\ Len(calls[i].out) = 2

\* C5: a line the pattern matches by its name alternative hands off nothing
\* and leaves the pending points as they are.
C5_NameNeverFlushes ==
    [][(ReadStep /\ Facts[l'].nameMatch) =>
          calls' = calls /\ points' = points]_vars

\* C6: Simplified is never called with an empty point sequence.
C6_NoEmptyHandoff ==
    \A i \in 1..Len(calls) : calls[i].inpoints # <<>>

C6_Witness ==
    /\ Len(inp) >= 3
    /\ Facts[inp[Len(inp)]].neither
    /\ Facts[inp[Len(inp) - 1]].neither
    /\ Len(calls) = 1
    /\ LastCall.at = Len(inp) - 1

\* C7: a line whose longitude or latitude has fewer than six fractional
\* digits appends no point and raises no parse error; it acts as a
\* separator: with points pending it hands them off, with none pending it
\* changes nothing.
C7_ShortCoordIsSeparator ==
    [][(ReadStep /\ Facts[l'].short) =>
          /\ pc' # "ValueError"
          /\ name' = name
          /\ IF points = <<>>
             THEN UNCHANGED <<points, pc, calls, files, stdout>>
             ELSE /\ Len(calls') = Len(calls) + 1
                  /\ calls'[Len(calls')].inpoints = points
                  /\ pc' = "loop" => points' = <<>>]_vars

C7_Witness ==
    /\ inp # <<>>
    /\ Facts[l].short
    /\ calls # <<>>
    /\ LastCall.at = Len(inp)
    /\ points = <<>>

\* C8, as claimed: on a name record the name becomes the captured text with
\* each run of whitespace replaced by one "_".
C8_RunsCollapsed ==
    [][(ReadStep /\ Facts[l'].nameRecord) =>
          name' = Facts[l'].collapsed]_vars

\* C8, amended: on a name record with a captured text that is not empty the
\* name becomes the captured text with every space character replaced by
\* "_", one for one; every other character, other whitespace included, is
\* kept.
C8_SpacesReplaced ==
    [][(ReadStep /\ Facts[l'].nameRecord) =>
          /\ Len(name') = Len(Facts[l'].captured)
          /\ \A i \in 1..Len(name') :
                name'[i] = IF Facts[l'].captured[i] = " " THEN "_"
                           ELSE Facts[l'].captured[i]]_vars

C8_Witness ==
    /\ l = LineNameWide
    /\ name = <<"B", "_", "_", "\t", "C">>

\* C9: every group handed off has an output of its own that holds the
\* reduced sequence of that group.
C9_OneOutputPerGroup ==
    \A i \in 1..Len(calls) :
        calls[i].ok =>
            /\ FileName(calls[i].name) \in DOMAIN files
            /\ files[FileName(calls[i].name)].coordinates = calls[i].out

\* C10, as claimed: a line that holds a name tag is a name record, wherever
\* the tag is in the line: the name is updated and no point is appended.
C10_NameFirst ==
    [][(ReadStep /\ Facts[l'].holdsTag) =>
          /\ points' = points
          /\ \E cap \in Facts[l'].tagNames : name' = Replace(cap)]_vars

\* C10, amended: each line has exactly one of the three effects, decided by
\* the leftmost match of the pattern in the line.  A name tag with a
\* captured text that is not empty, matched leftmost: the name is updated,
\* nothing else.  Coordinate text matched leftmost: one point is appended
\* (or float() ends the script), nothing else.  Any other line: the name and
\* the order of the pending points are untouched, and the pending points,
\* if any, are handed off.
C10_LeftmostMatch ==
    [][ReadStep =>
          IF Facts[l'].nameLeftmost
          THEN /\ name' = Replace(Facts[l'].leftmostName)
               /\ UNCHANGED <<points, pc, calls, files, stdout>>
          ELSE IF Facts[l'].coordLeftmost
          THEN /\ \/ Len(points') = Len(points) + 1 /\ pc' = pc
                  \/ points' = points /\ pc' = "ValueError"
               /\ UNCHANGED <<name, calls, files, stdout>>
          ELSE /\ name' = name
               /\ IF points = <<>>
                  THEN UNCHANGED <<points, pc, calls, files, stdout>>
                  ELSE Len(calls') = Len(calls) + 1]_vars

C10_Witness ==
    /\ l = LineCoordName
    /\ name = <<>>
    /\ Len(points) = 1
    /\ calls = <<>>

\* C11: for a coordinate record each of longitude and latitude is the value
\* of its text cut after the sixth fractional digit: further digits are
\* discarded, not rounded.
C11_Truncated ==
    [][(ReadStep /\ Facts[l'].long) =>
          /\ points' = points \o <<Facts[l'].cut>>
          /\ UNCHANGED <<name, pc, calls, files, stdout>>]_vars

C11_Witness ==
    /\ l = LineB
    /\ points # <<>>
    /\ points[Len(points)] = Facts[LineB].cut
    /\ Facts[LineB].cut # Facts[LineB].rounded

\* C12: a call of Simplified with an empty list of points ends in an
\* exception: it returns no list, and nothing is written or printed for it.
C12_EmptyInputFails ==
    [][(calls' # calls /\ points = <<>>) =>
          /\ ~calls'[Len(calls')].ok
          /\ pc' = "IndexError"
          /\ files' = files
          /\ stdout' = stdout]_vars

C12_Witness ==
    /\ calls # <<>>
    /\ LastCall.inpoints = <<>>
    /\ pc = "IndexError"
    /\ files = <<>>

\* C13: simplifying the result of a simplification of a non-empty list again,
\* at the same tolerance, retains the same number of points.
C13_Idempotent ==
    \A i \in 1..Len(sim) : \A j \in 1..Len(sim) :
        (/\ sim[i].coords # <<>>
         /\ sim[j].coords = sim[i].result
         /\ sim[j].epsilon = sim[i].epsilon)
        => Len(sim[j].result) = Len(sim[i].result)

C13_Witness ==
    /\ Len(sim) = 2
    /\ Len(sim[1].result) < Len(sim[1].coords)
    /\ Len(sim[1].result) > 2
    /\ sim[2].coords = sim[1].result
    /\ sim[2].epsilon = sim[1].epsilon
    /\ sim[2].result = sim[1].result

\* C14: for one list of points and two tolerances t1 <= t2, the number of
\* points retained at t2 is at most the number retained at t1 (the closing
\* copy is added later and is not counted).
C14_Monotone ==
    \A i \in 1..Len(sim) : \A j \in 1..Len(sim) :
        (sim[i].coords = sim[j].coords /\ sim[i].epsilon <= sim[j].epsilon)
        => Len(sim[j].result) <= Len(sim[i].result)

C14_Witness ==
    /\ Len(sim) = 2
    /\ sim[1].coords = sim[2].coords
    /\ sim[1].epsilon < sim[2].epsilon
    /\ 2 < Len(sim[2].result)
    /\ Len(sim[2].result) < Len(sim[1].result)

\* C15: a handoff leaves the name as it was, and when it returns the pending
\* points are empty; the points handed off so far are then the points of the
\* coordinate records read so far, each once and in order, so no record is
\* in two groups.
C15_ResetAfterHandoff ==
    [][calls' # calls =>
          /\ name' = name
          /\ (pc' = "loop" => points' = <<>>)
          /\ HandedOff(calls') = PointsOf(inp')]_vars

C15_Witness ==
    /\ Len(calls) = 2
    /\ pc = "loop"
    /\ points = <<>>
    /\ calls[1].inpoints # <<>>
    /\ calls[2].inpoints # <<>>
    /\ calls[2].name = calls[1].name
    /\ name = calls[1].name

\* The sanitized text of the last of the lines that is a name line (its
\* leftmost match is the name tag), the empty text when there is none.
RECURSIVE LatestName(_)
LatestName(lines) ==
    IF lines = <<>> THEN <<>>
    ELSE LET last == lines[Len(lines)]
         IN  IF Facts[last].nameMatch THEN Replace(Facts[last].captured)
             ELSE LatestName(SubSeq(lines, 1, Len(lines) - 1))

\* C16: the name of every handoff is the sanitized text of the latest name
\* line read before the line that caused the handoff, the empty text when
\* there was none; points read before that name line stay in the group.
C16_NameAtHandoff ==
    \A i \in 1..Len(calls) :
        calls[i].name = LatestName(SubSeq(inp, 1, calls[i].at - 1))

\* A point as the text of its longitude, a comma, the text of its latitude,
\* a comma and the elevation 0.
Rendered(p) == FloatStr(p[1]) \o <<",">> \o FloatStr(p[2]) \o <<",", "0">>

\* C17: for a non-empty input Simplified returns the points simplify_coords
\* retained, in order, each as the text lon,lat,0, and after them one copy of
\* the first text: one element more than retained, also when the retained
\* points already end where they start.
C17_PostProcessing ==
    [][(calls' # calls /\ points # <<>>) =>
          LET kept == sim'[Len(sim')].result
              out  == calls'[Len(calls')].out
          IN  /\ calls'[Len(calls')].ok
              /\ Len(out) = Len(kept) + 1
              /\ \A j \in 1..Len(kept) : out[j] = Rendered(kept[j])
              /\ out[Len(out)] = out[1]]_vars

C17_Witness ==
    /\ calls # <<>>
    /\ LastCall.ok
    /\ LET kept == sim[Len(sim)].result
       IN  /\ sim[Len(sim)].coords = LastCall.inpoints
           /\ Len(kept) >= 3
           /\ kept[1] = kept[Len(kept)]
           /\ Len(LastCall.out) = Len(kept) + 1

\* C18: once the script has ended it reads no further line, and a handoff
\* that ends the script with an exception leaves every file written before
\* it in place with its content unchanged.
C18_NoRollback ==
    [][/\ (pc # "loop" => inp' = inp)
       /\ ((calls' # calls /\ pc' # "loop") =>
              \A f \in DOMAIN files :
                  f \in DOMAIN files' /\ files'[f] = files[f])]_vars

\* C19: a line the script takes for a coordinate record holds a longitude and
\* a latitude written with a decimal point, and reading it appends a point
\* without a parse error.
C19_LiteralDecimalPoint ==
    [][(ReadStep /\ Facts[l'].classified) =>
          /\ Facts[l'].literal
          /\ pc' = pc
          /\ Len(points') = Len(points) + 1]_vars

=============================================================================
